---- MODULE Spec2Model ----
(***************************************************************************)
(* A model of the 2048 game of src/src/App.tsx: the grid-transform engine  *)
(* (rotateMap, moveRowLeft, moveLeft, moveMapIn2048Rule, reached), the     *)
(* tile spawn, and the React component's state with its two handlers       *)
(* (handleKeyDown, handleNewGame) and its localStorage snapshot.           *)
(*                                                                         *)
(* Grids are sequences of rows, rows are sequences of tiles, both indexed  *)
(* from 1 (the source indexes from 0).  A tile is a number; the source's   *)
(* null (an empty cell) is written Null.                                   *)
(***************************************************************************)
EXTENDS Integers, Sequences, FiniteSets, TLC

VARIABLES game, storage, lastMove, steps, arg, ret

vars == <<game, storage, lastMove, steps, arg, ret>>

(***************************************************************************)
(* Program constants.                                                      *)
(***************************************************************************)
ROWS == 4
COLS == 4
TARGET_TILE == 128

\* The empty cell: `null` of type Tile = number | null.
Null == 0

Direction == {"up", "down", "left", "right"}

(***************************************************************************)
(* Bounds of the model.                                                    *)
(***************************************************************************)
\* Tiles of the row inputs are 2^1 .. 2^MaxExp.
MaxExp == 7
\* The sparse grid inputs hold at most MaxTiles non-empty tiles.
MaxTiles == 2
\* The rotation inputs are R x C grids with R, C in 1..MaxDim.
MaxDim == 3
\* Math.random() of the spawn position is one of k / PosLevels, k < PosLevels.
PosLevels == 2
\* At most MaxSteps accepted moves and new games in one behaviour.
MaxSteps == 2

(***************************************************************************)
(* Helpers over sequences.                                                 *)
(***************************************************************************)
RECURSIVE Pow2(_)
Pow2(e) == IF e = 0 THEN 1 ELSE 2 * Pow2(e - 1)

RECURSIVE SumSeq(_)
SumSeq(s) == IF Len(s) = 0 THEN 0 ELSE Head(s) + SumSeq(Tail(s))

NonEmpty(row) == SelectSeq(row, LAMBDA v : v # Null)

\* Array.from({ length: n }, (_, i) => F(i)), and xs.map(F): a new array,
\* built at once.
ArrayFrom(n, F(_)) == SubSeq([i \in 1..n |-> F(i)], 1, n)

CountTiles(map) == SumSeq(ArrayFrom(Len(map), LAMBDA i : Len(NonEmpty(map[i]))))

(***************************************************************************)
(* rotateMapDeg / revertMapDeg: the rotation tables.                       *)
(***************************************************************************)
rotateMapDegSwapped(direction) ==
    CASE direction = "up"    -> 270
      [] direction = "right" -> 180
      [] direction = "down"  -> 90
      [] direction = "left"  -> 0

rotateMapDeg(direction) ==
    CASE direction = "up"    -> 90
      [] direction = "right" -> 180
      [] direction = "down"  -> 270
      [] direction = "left"  -> 0

revertMapDegSame(direction) ==
    CASE direction = "up"    -> 90
      [] direction = "right" -> 180
      [] direction = "down"  -> 270
      [] direction = "left"  -> 0

revertMapDeg(direction) ==
    CASE direction = "up"    -> 270
      [] direction = "right" -> 180
      [] direction = "down"  -> 90
      [] direction = "left"  -> 0

(***************************************************************************)
(* cloneMap, rotateMap.  The source builds, for 90, C rows of R cells with *)
(* out[c][r] = map[r][C - c - 1] (0-based); 1-based that is                *)
(* out[c][r] = map[r][C - c + 1].                                          *)
(***************************************************************************)
cloneMap(map) ==
    ArrayFrom(Len(map), LAMBDA r : ArrayFrom(Len(map[r]), LAMBDA c : map[r][c]))

\* rotateMap with the 90 branch mirroring each row instead of turning the grid.
rotateMapMirror(map, deg) ==
    LET R == Len(map)
        C == Len(map[1])
    IN  IF deg = 0 THEN cloneMap(map)
        ELSE IF deg = 90 THEN
            ArrayFrom(R, LAMBDA r : ArrayFrom(C, LAMBDA c : map[r][C - c + 1]))
        ELSE IF deg = 180 THEN
            ArrayFrom(R, LAMBDA r : ArrayFrom(C, LAMBDA c : map[R - r + 1][C - c + 1]))
        ELSE
            ArrayFrom(C, LAMBDA c : ArrayFrom(R, LAMBDA r : map[R - r + 1][c]))

rotateMap(map, deg) ==
    LET R == Len(map)
        C == Len(map[1])
    IN  IF deg = 0 THEN cloneMap(map)
        ELSE IF deg = 90 THEN
            ArrayFrom(C, LAMBDA c : ArrayFrom(R, LAMBDA r : map[r][C - c + 1]))
        ELSE IF deg = 180 THEN
            ArrayFrom(R, LAMBDA r : ArrayFrom(C, LAMBDA c : map[R - r + 1][C - c + 1]))
        ELSE
            ArrayFrom(C, LAMBDA c : ArrayFrom(R, LAMBDA r : map[R - r + 1][c]))

(***************************************************************************)
(* moveRowLeft.  reduceStep is the reducer callback of row.reduce, with    *)
(* the merge ceiling (the module constant TARGET_TILE in the source) as    *)
(* the parameter target.                                                   *)
(***************************************************************************)
\* The reducer with the merged tile kept pending, so that it merges again.
reduceStepChain(acc, cell, target) ==
    IF cell = Null THEN acc
    ELSE IF acc.last = Null THEN [acc EXCEPT !.last = cell]
    ELSE IF acc.last = cell /\ cell * 2 <= target THEN
        [result |-> acc.result, last |-> cell * 2, gained |-> acc.gained + cell * 2]
    ELSE
        [result |-> Append(acc.result, acc.last), last |-> cell, gained |-> acc.gained]

\* The reducer without the ceiling test.
reduceStepNoCeiling(acc, cell, target) ==
    IF cell = Null THEN acc
    ELSE IF acc.last = Null THEN [acc EXCEPT !.last = cell]
    ELSE IF acc.last = cell THEN
        [result |-> Append(acc.result, cell * 2), last |-> Null,
         gained |-> acc.gained + cell * 2]
    ELSE
        [result |-> Append(acc.result, acc.last), last |-> cell, gained |-> acc.gained]

\* The reducer scoring one addend instead of the merged tile.
reduceStepAddend(acc, cell, target) ==
    IF cell = Null THEN acc
    ELSE IF acc.last = Null THEN [acc EXCEPT !.last = cell]
    ELSE IF acc.last = cell /\ cell * 2 <= target THEN
        [result |-> Append(acc.result, cell * 2), last |-> Null,
         gained |-> acc.gained + cell]
    ELSE
        [result |-> Append(acc.result, acc.last), last |-> cell, gained |-> acc.gained]

\* The reducer merging to cell + 2 instead of cell * 2.
reduceStepPlus(acc, cell, target) ==
    IF cell = Null THEN acc
    ELSE IF acc.last = Null THEN [acc EXCEPT !.last = cell]
    ELSE IF acc.last = cell /\ cell * 2 <= target THEN
        [result |-> Append(acc.result, cell + 2), last |-> Null,
         gained |-> acc.gained + cell + 2]
    ELSE
        [result |-> Append(acc.result, acc.last), last |-> cell, gained |-> acc.gained]

reduceStep(acc, cell, target) ==
    IF cell = Null THEN acc
    ELSE IF acc.last = Null THEN [acc EXCEPT !.last = cell]
    ELSE IF acc.last = cell /\ cell * 2 <= target THEN
        [result |-> Append(acc.result, cell * 2), last |-> Null,
         gained |-> acc.gained + cell * 2]
    ELSE
        [result |-> Append(acc.result, acc.last), last |-> cell, gained |-> acc.gained]

RECURSIVE reduceRow(_, _, _, _)
reduceRow(row, i, acc, target) ==
    IF i > Len(row) THEN acc
    ELSE reduceRow(row, i + 1, reduceStep(acc, row[i], target), target)

\* isMoved taken from the score: true only when something merged.
rowIsMovedMerged(row, out) == Len(NonEmpty(row)) # Len(NonEmpty(out))

rowIsMoved(row, out) == \E i \in 1..Len(row) : row[i] # out[i]

moveRowLeftWith(row, target) ==
    LET red == reduceRow(row, 1, [last |-> Null, result |-> <<>>, gained |-> 0], target)
        arr == Append(red.result, red.last)
        out == ArrayFrom(Len(row), LAMBDA i : IF i <= Len(arr) THEN arr[i] ELSE Null)
    IN  [result |-> out, isMoved |-> rowIsMoved(row, out), gained |-> red.gained]

moveRowLeft(row) == moveRowLeftWith(row, TARGET_TILE)

moveLeft(map) ==
    LET rows == ArrayFrom(Len(map), LAMBDA i : moveRowLeft(map[i]))
    IN  [result  |-> ArrayFrom(Len(rows), LAMBDA i : rows[i].result),
         isMoved |-> \E i \in 1..Len(rows) : rows[i].isMoved,
         gained  |-> SumSeq(ArrayFrom(Len(rows), LAMBDA i : rows[i].gained))]

moveMapIn2048Rule(map, direction) ==
    LET rotated == rotateMap(map, rotateMapDeg(direction))
        m == moveLeft(rotated)
    IN  [result  |-> rotateMap(m.result, revertMapDeg(direction)),
         isMoved |-> m.isMoved,
         gained  |-> m.gained]

(***************************************************************************)
(* emptyMap, empties, spawn, reached, keyToDirection.                      *)
(***************************************************************************)
emptyMap(r, c) == ArrayFrom(r, LAMBDA i : ArrayFrom(c, LAMBDA j : Null))

\* The empty cells in the order the two nested loops push them: row-major.
empties(map) ==
    LET C == Len(map[1])
        cells == ArrayFrom(Len(map) * C,
                           LAMBDA k : <<((k - 1) \div C) + 1, ((k - 1) % C) + 1>>)
    IN  SelectSeq(cells, LAMBDA p : map[p[1]][p[2]] = Null)

\* spawn drawing its cell among all the cells, empty or not.
spawnAnyCell(map, k, four) ==
    LET C == Len(map[1])
        n == Len(map) * C
        q == (k * n) \div PosLevels
    IN  [map EXCEPT ![(q \div C) + 1][(q % C) + 1] = IF four THEN 4 ELSE 2]

\* spawn(map) mutates map in place and returns whether it placed a tile; the
\* model returns the map after the call (unchanged when no cell is empty).
\* The first Math.random() is k / PosLevels; four is the outcome of the
\* second draw, Math.random() >= 0.9.
spawn(map, k, four) ==
    LET e == empties(map)
    IN  IF Len(e) = 0 THEN map
        ELSE LET p == e[((k * Len(e)) \div PosLevels) + 1]
             IN  [map EXCEPT ![p[1]][p[2]] = IF four THEN 4 ELSE 2]

reached(map, t) ==
    \E r \in 1..Len(map) : \E c \in 1..Len(map[r]) : map[r][c] # Null /\ map[r][c] >= t

NoDirection == "none"

keyToDirection(key) ==
    IF key = "ArrowUp" THEN "up"
    ELSE IF key = "ArrowRight" THEN "right"
    ELSE IF key = "ArrowDown" THEN "down"
    ELSE IF key = "ArrowLeft" THEN "left"
    ELSE NoDirection

\* The keys of the model: the four arrows and one other key.
Keys == {"ArrowUp", "ArrowRight", "ArrowDown", "ArrowLeft", "a"}

Draws == 0..(PosLevels - 1)

(***************************************************************************)
(* The component's state: game is the useState value, storage the          *)
(* localStorage entry under STORAGE_KEY (NoSnapshot when absent), and      *)
(* lastMove the locals { result, isMoved, gained } of the latest accepted  *)
(* key event of the current game (NoMove when there is none).              *)
(***************************************************************************)
NoSnapshot == [map |-> <<>>, score |-> -1, finished |-> FALSE]

\* A new game: the empty grid with two spawned tiles.
newGame(k1, f1, k2, f2) ==
    [map      |-> spawn(spawn(emptyMap(ROWS, COLS), k1, f1), k2, f2),
     score    |-> 0,
     finished |-> FALSE]

\* The new games of the model's draws.
NewGames ==
    { newGame(k1, f1, k2, f2) : k1 \in Draws, k2 \in Draws, f1 \in BOOLEAN, f2 \in BOOLEAN }

NoMove == [accepted |-> FALSE, result |-> <<>>, gained |-> 0]

\* Snapshots a previous session can have saved: states of a game in progress
\* (4 x 4, tiles 2..64, the last spawned tile on the board, the score the sum
\* of the merges that built the tiles, not finished).
SavedGames ==
    { [map |-> << <<64, 64, 4, 2>>,
                  <<Null, 2, Null, Null>>,
                  <<Null, Null, Null, Null>>,
                  <<Null, Null, Null, Null>> >>,
       score |-> 644, finished |-> FALSE],
      [map |-> << <<2, 4, 2, 4>>,
                  <<4, 2, 4, 2>>,
                  <<2, 4, 2, 4>>,
                  <<4, 2, 8, 8>> >>,
       score |-> 40, finished |-> FALSE],
      [map |-> << <<32, 64, Null, Null>>,
                  <<32, 64, Null, Null>>,
                  <<2, Null, Null, Null>>,
                  <<Null, Null, Null, Null>> >>,
       score |-> 896, finished |-> FALSE] }

\* The functional update of handleKeyDown up to the move: whether the key is
\* accepted (the game is not finished, the key is an arrow, the move moved),
\* and the move's outcome.
keyDownMoveActive(prev, key) ==
    LET dir == keyToDirection(key)
    IN  IF dir = NoDirection THEN NoMove
        ELSE LET mv == moveMapIn2048Rule(prev.map, dir)
             IN  [accepted |-> mv.isMoved, result |-> mv.result, gained |-> mv.gained]

\* The update without the test of prev.finished.
keyDownMoveNoGuard(prev, key) == keyDownMoveActive(prev, key)

keyDownMove(prev, key) ==
    IF prev.finished THEN NoMove
    ELSE keyDownMoveActive(prev, key)

\* The rest of the update for an accepted move mv: the spawn into a copy of
\* the result and the next state.
keyDownNext(prev, mv, k, four) ==
    LET newMap == spawn(cloneMap(mv.result), k, four)
    IN  [map      |-> newMap,
         score    |-> prev.score + mv.gained,
         finished |-> reached(newMap, TARGET_TILE)]

PureIdle == [op |-> "none", map |-> <<>>, dir |-> "left", target |-> TARGET_TILE]

NoRet == [done |-> FALSE, result |-> <<>>, back |-> <<>>, isMoved |-> FALSE, gained |-> 0]

\* useState's initialiser: the saved snapshot when load() finds one, else a
\* new game (which is not saved).
Init ==
    /\ \/ \E s \in SavedGames : game = s /\ storage = s
       \/ game \in NewGames /\ storage = NoSnapshot
    /\ lastMove = NoMove
    /\ steps = 0
    /\ arg = PureIdle
    /\ ret = NoRet

\* A key event.  A key that is not accepted returns prev: nothing changes and
\* nothing is saved.
HandleKeyDown(key) ==
    LET mv == keyDownMove(game, key)
    IN  IF ~mv.accepted THEN UNCHANGED vars
        ELSE /\ steps < MaxSteps
             /\ \E k \in Draws, four \in BOOLEAN :
                    /\ game' = keyDownNext(game, mv, k, four)
                    /\ storage' = game'
             /\ lastMove' = mv
             /\ steps' = steps + 1
             /\ UNCHANGED <<arg, ret>>

HandleNewGame ==
    /\ steps < MaxSteps
    /\ game' \in NewGames
    /\ storage' = game'
    /\ lastMove' = NoMove
    /\ steps' = steps + 1
    /\ UNCHANGED <<arg, ret>>

Next ==
    \/ \E key \in Keys : HandleKeyDown(key)
    \/ HandleNewGame

Spec == Init /\ [][Next]_vars

(***************************************************************************)
(* The engine's functions applied to bounded inputs: arg is the call       *)
(* (a row scan, a whole-grid move, or a forward and a reverse rotation),   *)
(* ret what it returned.  A row is passed as a grid of one row.            *)
(***************************************************************************)
NoGame == NoSnapshot

RowTiles == {Null} \cup {Pow2(e) : e \in 1..MaxExp}

\* The ceilings of the row inputs: the source's, and the one of the
\* specification's blocked-merge scenario.
Ceilings == {TARGET_TILE \div 2, TARGET_TILE}

GridTiles == {2, TARGET_TILE}

\* The r x c grids with at most n non-empty tiles, each drawn from tiles.
SparseGrids(r, c, n, tiles) ==
    LET cells == (1..r) \X (1..c)
    IN  UNION { { [i \in 1..r |-> [j \in 1..c |->
                      IF <<i, j>> \in S THEN f[<<i, j>>] ELSE Null]] : f \in [S -> tiles] }
                : S \in {T \in SUBSET cells : Cardinality(T) <= n} }

\* Crowded grids: every row is one of four patterns.
DenseRows ==
    { <<2, 4, 2, 4>>, <<4, 2, 4, 2>>, <<TARGET_TILE, TARGET_TILE, 2, 2>>, <<Null, 2, Null, 2>> }

DenseGrids == [1..ROWS -> DenseRows]

\* The grid with all cells different: cell (i, j) holds its row-major index.
LabelledGrid(r, c) == [i \in 1..r |-> [j \in 1..c |-> (i - 1) * c + j]]

RotateGrids ==
    UNION { SparseGrids(r, c, MaxTiles, {2}) \cup {LabelledGrid(r, c)}
            : <<r, c>> \in (1..MaxDim) \X (1..MaxDim) }

InitPure ==
    /\ game = NoGame
    /\ storage = NoSnapshot
    /\ lastMove = NoMove
    /\ steps = 0
    /\ ret = NoRet
    /\ \/ \E row \in [1..COLS -> RowTiles], t \in Ceilings :
              arg = [op |-> "row", map |-> <<row>>, dir |-> "left", target |-> t]
       \/ \E g \in SparseGrids(ROWS, COLS, MaxTiles, GridTiles) \cup DenseGrids,
             d \in Direction :
              arg = [op |-> "move", map |-> g, dir |-> d, target |-> TARGET_TILE]
       \/ \E g \in RotateGrids, d \in Direction :
              arg = [op |-> "rotate", map |-> g, dir |-> d, target |-> TARGET_TILE]

ApplyRow ==
    /\ arg.op = "row" /\ ~ret.done
    /\ LET m == moveRowLeftWith(arg.map[1], arg.target)
       IN  ret' = [done |-> TRUE, result |-> <<m.result>>, back |-> <<>>,
                   isMoved |-> m.isMoved, gained |-> m.gained]
    /\ UNCHANGED <<game, storage, lastMove, steps, arg>>

ApplyMove ==
    /\ arg.op = "move" /\ ~ret.done
    /\ LET m == moveMapIn2048Rule(arg.map, arg.dir)
       IN  ret' = [done |-> TRUE, result |-> m.result, back |-> <<>>,
                   isMoved |-> m.isMoved, gained |-> m.gained]
    /\ UNCHANGED <<game, storage, lastMove, steps, arg>>

ApplyRotate ==
    /\ arg.op = "rotate" /\ ~ret.done
    /\ LET fwd == rotateMap(arg.map, rotateMapDeg(arg.dir))
       IN  ret' = [done |-> TRUE, result |-> fwd,
                   back |-> rotateMap(fwd, revertMapDeg(arg.dir)),
                   isMoved |-> FALSE, gained |-> 0]
    /\ UNCHANGED <<game, storage, lastMove, steps, arg>>

NextPure == ApplyRow \/ ApplyMove \/ ApplyRotate

SpecPure == InitPure /\ [][NextPure]_vars

(***************************************************************************)
(* Reference notions the properties are stated with.                       *)
(***************************************************************************)
Horizontal(d) == d \in {"left", "right"}

\* The lines of grid g along direction d, and the length of each.
NumLines(g, d) == IF Horizontal(d) THEN Len(g) ELSE Len(g[1])

LineLen(g, d) == IF Horizontal(d) THEN Len(g[1]) ELSE Len(g)

\* The i-th cell of line k, counted from the d-side edge inward.
LineCell(g, d, k, i) ==
    CASE d = "left"  -> <<k, i>>
      [] d = "right" -> <<k, Len(g[1]) - i + 1>>
      [] d = "up"    -> <<i, k>>
      [] d = "down"  -> <<Len(g) - i + 1, k>>

Line(g, d, k) ==
    ArrayFrom(LineLen(g, d), LAMBDA i : LET p == LineCell(g, d, k, i) IN g[p[1]][p[2]])

\* The tiles of a compacted line grouped from its head: two equal tiles whose
\* double is within the ceiling t form a pair, any other tile stands alone.
RECURSIVE Groups(_, _)
Groups(s, t) ==
    IF Len(s) = 0 THEN <<>>
    ELSE IF Len(s) >= 2 /\ s[1] = s[2] /\ 2 * s[1] <= t
         THEN << <<s[1], s[2]>> >> \o Groups(SubSeq(s, 3, Len(s)), t)
         ELSE << <<s[1]>> >> \o Groups(Tail(s), t)

\* The tiles the pairs of a line turn into.
MergedTiles(line, t) ==
    LET gs == Groups(NonEmpty(line), t)
        pairs == SelectSeq(gs, LAMBDA x : Len(x) = 2)
    IN  ArrayFrom(Len(pairs), LAMBDA i : 2 * pairs[i][1])

IsPow2(v) == \E e \in 0..(MaxExp + 2) : v = Pow2(e)

HasEmpty(map) == \E r \in 1..Len(map) : \E c \in 1..Len(map[r]) : map[r][c] = Null

Differs(a, b) == \E r \in 1..Len(a) : \E c \in 1..Len(a[r]) : a[r][c] # b[r][c]

RowDone == ret.done /\ arg.op = "row"

MoveDone == ret.done /\ arg.op = "move"

RotateDone == ret.done /\ arg.op = "rotate"

(***************************************************************************)
(* C1.  A move in direction D slides toward the D-side edge: every line    *)
(* along D, read from the D-side edge inward, is replaced by its           *)
(* moveRowLeft scan, written back from the D-side edge; isMoved is the OR  *)
(* and gained the sum of the scans of the lines.                           *)
(***************************************************************************)
C1_MoveSlidesTowardEdge ==
    MoveDone =>
        LET g == arg.map
            d == arg.dir
            scan == ArrayFrom(NumLines(g, d), LAMBDA k : moveRowLeft(Line(g, d, k)))
        IN  /\ Len(ret.result) = Len(g)
            /\ \A r \in 1..Len(g) : Len(ret.result[r]) = Len(g[r])
            /\ \A k \in 1..NumLines(g, d) : \A i \in 1..LineLen(g, d) :
                   ret.result[LineCell(g, d, k, i)[1]][LineCell(g, d, k, i)[2]]
                       = scan[k].result[i]
            /\ ret.isMoved = (\E k \in 1..NumLines(g, d) : scan[k].isMoved)
            /\ ret.gained = SumSeq(ArrayFrom(Len(scan), LAMBDA k : scan[k].gained))

\* An upward move that merged a column's two tiles at the top edge.
C1_Witness ==
    /\ MoveDone /\ arg.dir = "up"
    /\ arg.map[2][3] = 2 /\ arg.map[4][3] = 2
    /\ ret.result[1][3] = 4 /\ ret.result[2][3] = Null /\ ret.gained = 4

(***************************************************************************)
(* C2.  Rotating a grid by a direction's forward degree and then by its    *)
(* reverse degree gives the grid back, in dimensions and in every cell.    *)
(***************************************************************************)
C2_RotateRoundTrip == RotateDone => ret.back = arg.map

\* A round trip of a non-square grid through a quarter turn.
C2_Witness ==
    /\ RotateDone /\ arg.dir = "down"
    /\ Len(arg.map) = 2 /\ Len(arg.map[1]) = 3 /\ arg.map[1][3] = 2
    /\ Len(ret.result) = 3 /\ Len(ret.result[1]) = 2

(***************************************************************************)
(* C3.  isMoved is true exactly when the returned grid (or row) differs    *)
(* from the input in at least one cell; when it is false the result is     *)
(* the input.                                                              *)
(***************************************************************************)
C3_MovedIffDiffers ==
    (MoveDone \/ RowDone) =>
        /\ ret.isMoved <=> Differs(ret.result, arg.map)
        /\ ~ret.isMoved => ret.result = arg.map

\* A blocked move of a crowded grid, and a move that slid without merging.
C3_Witness ==
    \/ MoveDone /\ ~ret.isMoved /\ ~HasEmpty(arg.map)
    \/ MoveDone /\ ret.isMoved /\ ret.gained = 0 /\ CountTiles(arg.map) = MaxTiles

(***************************************************************************)
(* C4.  gained is the sum of the tiles the merges created (the doubles),   *)
(* so it is even and >= 0, and it is 0 exactly when nothing merged (the    *)
(* result holds as many tiles as the input).                               *)
(***************************************************************************)
C4_GainedIsSumOfMerged ==
    (MoveDone \/ RowDone) =>
        LET g == arg.map
            d == arg.dir
        IN  /\ ret.gained =
                   SumSeq(ArrayFrom(NumLines(g, d),
                       LAMBDA k : SumSeq(MergedTiles(Line(g, d, k), arg.target))))
            /\ ret.gained >= 0
            /\ ret.gained % 2 = 0
            /\ (ret.gained = 0) <=> (CountTiles(ret.result) = CountTiles(g))

\* A row with two merges, 2+2 and 8+8, scoring 4 + 16.
C4_Witness ==
    /\ RowDone /\ arg.target = TARGET_TILE
    /\ arg.map[1] = <<2, 2, 8, 8>>
    /\ ret.result[1] = <<4, 16, Null, Null>> /\ ret.gained = 20

(***************************************************************************)
(* C5.  Two equal tiles v, adjacent after compaction, with 2v above the    *)
(* ceiling are not merged: the scan of the row is the scan of the part up  *)
(* to the first of them followed by the scan of the part from the second,  *)
(* the first part ending in v and the second starting with v, and gained   *)
(* is the sum of the two parts' gains.  With ceiling 64, [64,64,64,null]   *)
(* comes back unchanged with gained 0 and isMoved false.                   *)
(***************************************************************************)
C5_CeilingBlocksMerge ==
    RowDone =>
        LET t == arg.target
            c == NonEmpty(arg.map[1])
            o == NonEmpty(ret.result[1])
        IN  /\ \A i \in 1..(Len(c) - 1) :
                   (c[i] = c[i + 1] /\ 2 * c[i] > t) =>
                       LET a == moveRowLeftWith(SubSeq(c, 1, i), t)
                           b == moveRowLeftWith(SubSeq(c, i + 1, Len(c)), t)
                           oa == NonEmpty(a.result)
                           ob == NonEmpty(b.result)
                       IN  /\ o = oa \o ob
                           /\ oa[Len(oa)] = c[i]
                           /\ ob[1] = c[i]
                           /\ ret.gained = a.gained + b.gained
            /\ (t = 64 /\ arg.map[1] = <<64, 64, 64, Null>>) =>
                   /\ ret.result[1] = <<64, 64, 64, Null>>
                   /\ ret.gained = 0
                   /\ ~ret.isMoved

\* The blocked-merge scenario itself.
C5_Witness ==
    /\ RowDone /\ arg.target = 64
    /\ arg.map[1] = <<64, 64, 64, Null>>
    /\ ~ret.isMoved

(***************************************************************************)
(* C6.  A merged tile does not merge again: the non-empty tiles of the     *)
(* output are, in order, the sums of the groups of the compacted input,    *)
(* each one input tile or a pair of equal input tiles, the pairs formed    *)
(* from the edge the row moves toward; a third equal tile stays unmerged.  *)
(***************************************************************************)
C6_NoDoubleMerge ==
    RowDone =>
        LET row == arg.map[1]
            gs == Groups(NonEmpty(row), arg.target)
            out == ret.result[1]
        IN  /\ Len(out) = Len(row)
            /\ \A i \in 1..Len(out) :
                   out[i] = IF i <= Len(gs) THEN SumSeq(gs[i]) ELSE Null
            /\ (arg.target = TARGET_TILE /\ row = <<2, Null, 2, 2>>) =>
                   out = <<4, 2, Null, Null>>
            /\ (arg.target = TARGET_TILE /\ row = <<2, 2, 4, Null>>) =>
                   out = <<4, 4, Null, Null>>

\* The scan of [2,2,4,null]: the merged 4 stays beside the old 4.
C6_Witness ==
    /\ RowDone /\ arg.target = TARGET_TILE
    /\ arg.map[1] = <<2, 2, 4, Null>>
    /\ ret.result[1] = <<4, 4, Null, Null>>

(***************************************************************************)
(* C7.  In every state of a game the grid is 4 x 4, every non-empty tile   *)
(* is a positive power of two, and no tile exceeds 128.                    *)
(***************************************************************************)
C7_GridWellFormed ==
    /\ Len(game.map) = ROWS
    /\ \A r \in 1..Len(game.map) :
           /\ Len(game.map[r]) = COLS
           /\ \A c \in 1..Len(game.map[r]) :
                  game.map[r][c] # Null =>
                      /\ game.map[r][c] > 0
                      /\ IsPow2(game.map[r][c])
                      /\ game.map[r][c] <= 128

\* A game in which a move has merged two 64s into the 128.
C7_Witness ==
    /\ lastMove.accepted /\ lastMove.gained >= 128
    /\ \E r \in 1..ROWS : \E c \in 1..COLS : game.map[r][c] = 128

(***************************************************************************)
(* C8.  rotateMap(grid, 90) of an R x C grid has C rows of R cells, and    *)
(* its cell at (row c, col r) is the input's cell at (row r, col C-c-1)    *)
(* (0-based): a quarter turn, not a mirror image.                          *)
(***************************************************************************)
C8_Rotate90Cells ==
    (RotateDone /\ arg.dir = "up") =>
        LET R == Len(arg.map)
            C == Len(arg.map[1])
        IN  /\ Len(ret.result) = C
            /\ \A c \in 1..C :
                   /\ Len(ret.result[c]) = R
                   /\ \A r \in 1..R : ret.result[c][r] = arg.map[r][C - c + 1]

\* C8 as stated: the output's cell (r, c) is the input's cell (r, C-c-1).
C8_AsStated ==
    (RotateDone /\ arg.dir = "up") =>
        LET C == Len(arg.map[1])
        IN  \A r \in 1..Len(ret.result) : \A c \in 1..Len(ret.result[r]) :
                /\ r <= Len(arg.map)
                /\ C - c + 1 >= 1
                /\ ret.result[r][c] = arg.map[r][C - c + 1]

\* A quarter turn of a non-square grid with one tile.
C8_Witness ==
    /\ RotateDone /\ arg.dir = "up"
    /\ Len(arg.map) = 2 /\ Len(arg.map[1]) = 3 /\ arg.map[1][1] = 2
    /\ ret.result[3][1] = 2

(***************************************************************************)
(* C9.  Once finished is true, a key event changes nothing (game and the   *)
(* saved snapshot stay as they are); only a new game leaves the state.     *)
(***************************************************************************)
C9_FinishedIsTerminal ==
    [][game.finished => (game' = game /\ storage' = storage) \/ HandleNewGame]_vars

\* A finished game that a move produced and saved, with room for more events.
C9_Witness ==
    /\ game.finished /\ lastMove.accepted /\ storage = game /\ steps < MaxSteps

(***************************************************************************)
(* C10.  An accepted move leaves at least one empty cell, and the spawn    *)
(* after it fills exactly one empty cell of the move's result with a 2 or  *)
(* a 4, changing no other cell.                                            *)
(***************************************************************************)
C10_AcceptedMoveSpawns ==
    lastMove.accepted =>
        /\ HasEmpty(lastMove.result)
        /\ CountTiles(game.map) = CountTiles(lastMove.result) + 1
        /\ \E r \in 1..ROWS : \E c \in 1..COLS :
               /\ lastMove.result[r][c] = Null
               /\ game.map[r][c] \in {2, 4}
               /\ game.map = [lastMove.result EXCEPT ![r][c] = game.map[r][c]]

\* A crowded grid after a move whose merge freed the one cell the spawn took.
C10_Witness ==
    /\ lastMove.accepted /\ lastMove.gained > 0
    /\ CountTiles(lastMove.result) = ROWS * COLS - 1
    /\ ~HasEmpty(game.map)

====
